---------------------------- MODULE Spec2Model ----------------------------
(***************************************************************************)
(* A model of package sqlrange (sqlrange.go): the struct-field mapping     *)
(* (appendFields), its copy-on-write cache (Fields, cachedFields), the row *)
(* scanner (Scan, QueryContext) and the write pipeline (ExecContext) with  *)
(* its options (ExecArgs, ExecArgsFields, ExecQuery).                      *)
(*                                                                         *)
(* Go indices are 0-based and kept 0-based in every Index; a TLA+ sequence *)
(* is accessed at i + 1.  database/sql (sql.Rows, sql.Result, the          *)
(* Queryable and Executable handles) and package reflect are the           *)
(* environment of the package: they are modelled by what the package       *)
(* observes of them.                                                       *)
(***************************************************************************)
EXTENDS Integers, Sequences, FiniteSets, TLC

(***************************************************************************)
(* Bounds of the model.                                                    *)
(***************************************************************************)
\* rows a cursor holds at most
MaxRows == 2
\* columns a cursor reports at most
MaxCols == 2
\* elements the input sequence of ExecContext holds at most
MaxInput == 3
\* times a consumer ranges over one returned sequence at most
MaxPasses == 2
\* goroutines calling Fields concurrently
NumProcs == 2
\* lookups the goroutines make at most, all together
MaxLookups == 3

(***************************************************************************)
(* Row types (reflect.Type of struct kind).  An attribute is what          *)
(* reflect.StructField tells of a field apart from its Index: Name,        *)
(* IsExported(), Anonymous, Type.Kind(), the struct type it holds (Elem)   *)
(* and Tag.Lookup("sql") as the pair (Tag, HasTag).  Attribute names are   *)
(* unique over all the types, so a Name identifies the declaring field.    *)
(***************************************************************************)
Attr(name, exported, anonymous, kind, elem, hasTag, tag) ==
    [Name |-> name, Exported |-> exported, Anonymous |-> anonymous,
     Kind |-> kind, Elem |-> elem, HasTag |-> hasTag, Tag |-> tag]

Column(name, tag) == Attr(name, TRUE, FALSE, "scalar", "", TRUE, tag)

Embedded(name, elem) == Attr(name, TRUE, TRUE, "struct", elem, FALSE, "")

Types ==
    [ \* sqlrange_test.go: type person struct (its time.Time column left out)
      person  |-> << Column("Age", "age"), Column("Name", "name") >>,
      \* a struct embedded by the types below
      base    |-> << Column("ID", "id"), Column("Rev", "rev") >>,
      \* struct { base }: the embedded fields are the only ones
      wrapped |-> << Embedded("WBase", "base") >>,
      \* struct { Key; base; note (unexported, tagged); Extra (untagged);
      \*          *base (anonymous, not of struct kind) }
      mixed   |-> << Column("Key", "key"),
                     Embedded("MBase", "base"),
                     Attr("note", FALSE, FALSE, "scalar", "", TRUE, "note"),
                     Attr("Extra", TRUE, FALSE, "scalar", "", FALSE, ""),
                     Attr("PBase", TRUE, TRUE, "ptr", "base", FALSE, "") >>,
      \* struct { mixed; Top }: embedding at depth two
      deep    |-> << Embedded("DMixed", "mixed"), Column("Top", "top") >>,
      \* two fields declaring the same column, and one declaring `sql:""`
      dup     |-> << Column("First", "x"), Column("Second", "x"),
                     Column("Blank", "") >>,
      \* type Code int; struct { Code `sql:"code"`; Label `sql:"label"` }:
      \* an anonymous field that is not a struct and carries a tag
      tagged  |-> << Attr("Code", TRUE, TRUE, "scalar", "", TRUE, "code"),
                     Column("Label", "label") >> ]

TypeIds == DOMAIN Types

\* the row types the pipelines are instantiated with
RowTypes == {"person", "wrapped", "mixed", "deep", "dup"}

NumField(t) == Len(Types[t])

\* t.Field(i): the StructField of the i-th field, whose Index is []int{i}
Field(t, i) ==
    [Name |-> Types[t][i + 1].Name, Index |-> << i >>,
     Exported |-> Types[t][i + 1].Exported,
     Anonymous |-> Types[t][i + 1].Anonymous,
     Kind |-> Types[t][i + 1].Kind, Elem |-> Types[t][i + 1].Elem,
     HasTag |-> Types[t][i + 1].HasTag, Tag |-> Types[t][i + 1].Tag]

(***************************************************************************)
(* appendFields: the field map of a struct type, a list of field{name,     *)
(* field}.  The StructField of an embedded struct's field is taken from    *)
(* the embedded type (t.Field(i) of f.Type), as the code takes it.         *)
(***************************************************************************)
\* an entry named after the Go field instead of its tag
fieldOfName(s, f) == [name |-> f.Name, field |-> f]

\* field{s, f}
fieldOf(s, f) == [name |-> s, field |-> f]

RECURSIVE appendFieldsFrom(_, _, _)
appendFieldsFrom(fields, t, i) ==
    IF i >= NumField(t) THEN fields
    ELSE LET f == Field(t, i)
             next ==
                 IF f.Exported
                 THEN IF f.Anonymous
                      THEN IF f.Kind = "struct"
                           THEN appendFieldsFrom(fields, f.Elem, 0)
                           ELSE fields
                      ELSE IF f.HasTag
                           THEN Append(fields, fieldOf(f.Tag, f))
                           ELSE fields
                 ELSE fields
         IN  appendFieldsFrom(next, t, i + 1)

appendFields(fields, t) == appendFieldsFrom(fields, t, 0)


\* Fields(t) when t is not in the cache: appendFields(nil, t)
computeFields(t) == appendFields(<< >>, t)

\* the field map of every type
FieldMaps == [t \in TypeIds |-> computeFields(t)]

\* the column names of a field map, in order
Names(fields) == [k \in 1..Len(fields) |-> fields[k].name]

(***************************************************************************)
(* Values (reflect.Value).  Every value is a record of the same three      *)
(* fields so that any two values compare: a scalar holds n (0 is the zero  *)
(* value of its type), a struct holds the values of its fields, and a      *)
(* pointer to a struct is only ever nil.                                   *)
(***************************************************************************)
Scalar(n) == [kind |-> "scalar", n |-> n, fields |-> << >>]

StructOf(fs) == [kind |-> "struct", n |-> 0, fields |-> fs]

NilPtr == [kind |-> "ptr", n |-> 0, fields |-> << >>]

\* the zero value of struct type t (var zero Row; new(Row))
RECURSIVE Zero(_)
Zero(t) ==
    StructOf([i \in 1..NumField(t) |->
                 CASE Types[t][i].Kind = "struct" -> Zero(Types[t][i].Elem)
                   [] Types[t][i].Kind = "ptr" -> NilPtr
                   [] OTHER -> Scalar(0)])

(***************************************************************************)
(* reflect.Value.FieldByIndex followed by Interface() or Addr().           *)
(* v.Field(i) panics when v is no struct or i is out of range, and         *)
(* Interface() panics on a value reached through an unexported field.      *)
(***************************************************************************)
\* the field of type t that index locates; ok is FALSE where reflect panics
\* (f is then the field at which the walk stopped, or the first one)
RECURSIVE Locate(_, _)
Locate(t, index) ==
    IF index = << >> \/ Head(index) >= NumField(t)
    THEN [ok |-> FALSE, f |-> Field(t, 0)]
    ELSE LET f == Field(t, Head(index))
         IN  IF Len(index) = 1 THEN [ok |-> f.Exported, f |-> f]
             ELSE IF f.Kind = "struct" /\ f.Exported
                  THEN Locate(f.Elem, Tail(index))
                  ELSE [ok |-> FALSE, f |-> f]

\* v.FieldByIndex(index), for an index Locate accepts
RECURSIVE FieldByIndex(_, _)
FieldByIndex(v, index) ==
    IF Len(index) = 1 THEN v.fields[Head(index) + 1]
    ELSE FieldByIndex(v.fields[Head(index) + 1], Tail(index))

\* *p = x for the pointer p = v.FieldByIndex(index).Addr()
RECURSIVE Assign(_, _, _)
Assign(v, index, x) ==
    IF Len(index) = 1
    THEN [v EXCEPT !.fields[Head(index) + 1] = x]
    ELSE [v EXCEPT !.fields[Head(index) + 1] =
                       Assign(v.fields[Head(index) + 1], Tail(index), x)]

\* slices.Index(s, x): the first 0-based position of x in s, or -1
SlicesIndex(s, x) ==
    IF \E k \in 1..Len(s) : s[k] = x
    THEN (CHOOSE k \in 1..Len(s) :
             s[k] = x /\ \A j \in 1..(k - 1) : s[j] # x) - 1
    ELSE -1

(***************************************************************************)
(* Errors and results.  An error is a string naming where it came from;    *)
(* Nil is the nil error, the nil sql.Result and the nil scan target.       *)
(***************************************************************************)
Nil == "nil"
ErrQuery == "query"
ErrColumns == "columns"
ErrScan == "scan"
ErrRows == "rows"
ErrInput == "input"
ErrExec == "exec"
SomeResult == "result"

(***************************************************************************)
(* State.                                                                  *)
(***************************************************************************)
VARIABLES
    api,          \* the function the application calls
    T,            \* the type parameter Row
    cursor,       \* the *sql.Rows the query returns: what it will report
    queryErr,     \* whether q.QueryContext returns an error
    input,        \* seq: the (Row, error) pairs the input sequence yields
    opts,         \* opts ...ExecOption[Row]
    pc,           \* where control is
    seqKind,      \* which closure the call returned
    pass,         \* how many times the consumer has ranged over it
    out,          \* the pairs yielded to the consumer in this pass
    stopped,      \* the consumer's yield returned false in this pass
    submits,      \* calls of q.QueryContext
    calls,        \* calls of each method of the *sql.Rows
    curPos,       \* rows the cursor has advanced over
    curClosed,    \* the *sql.Rows is closed
    scanArgs,     \* Scan's scanArgs
    row,          \* Scan's *row
    options,      \* ExecContext's options (args, query), and ExecArgsFields'
                  \* structFieldIndexes
    inPos,        \* elements pulled from seq in this pass
    r,            \* ExecContext's loop variable r
    execArgs,     \* ExecContext's execArgs
    execLog,      \* the calls e.ExecContext(ctx, execQuery, execArgs...) of
                  \* this pass, each with what it returned
    cachedFields, \* the map held by the atomic.Value cachedFields
    fpc,          \* per goroutine calling Fields: where it is
    ftype,        \* per goroutine: the type t it looks up
    fcache,       \* per goroutine: the map it loaded (cache)
    fnew,         \* per goroutine: the map it builds (newCache)
    ffields,      \* per goroutine: the fields it ranges over
    flookups      \* lookups the goroutines have begun

pipeVars ==
    << api, T, cursor, queryErr, input, opts, pc, seqKind, pass, out, stopped,
       submits, calls, curPos, curClosed, scanArgs, row, options, inPos, r,
       execArgs, execLog >>

procVars == << fpc, ftype, fcache, fnew, ffields, flookups >>

vars == << pipeVars, cachedFields, procVars >>

(***************************************************************************)
(* Fields: the lookup in the cache and, on a miss, the published map.      *)
(***************************************************************************)
\* cache[t] with its ok
CacheHit(cache, t) == t \in DOMAIN cache

\* fields as Fields(t) ranges over them, having loaded cache
FieldsOf(cache, t) ==
    IF CacheHit(cache, t) THEN cache[t] ELSE computeFields(t)

\* newCache: a fresh map of the loaded entries and the new one
NewCache(cache, t, fields) ==
    [k \in DOMAIN cache \cup {t} |-> IF k = t THEN fields ELSE cache[k]]

\* the map cachedFields holds after a sequential Fields(t) loaded cache
Published(cache, t) ==
    IF CacheHit(cache, t) THEN cache
    ELSE NewCache(cache, t, computeFields(t))

\* the empty map (cachedFields.Load() of an atomic.Value never stored)
EmptyCache == [k \in {} |-> << >>]

(***************************************************************************)
(* The inputs of a run.                                                    *)
(***************************************************************************)
Unmapped == "unmapped"

\* the column names a cursor may report or an option may list for type t
ColumnNames(t) ==
    {computeFields(t)[k].name : k \in 1..Len(computeFields(t))} \cup {Unmapped}

\* lists of distinct names
ColumnLists(t) ==
    UNION {{c \in [1..n -> ColumnNames(t)] :
               \A i, j \in 1..n : c[i] = c[j] => i = j} : n \in 1..MaxCols}

\* a cursor: the columns it reports (or that Columns() fails), its rows,
\* the cell at which the driver's conversion fails (<<0, 0>>: none) and
\* whether it ends with an error
Cursors(t) ==
    {[columnsErr |-> TRUE, columns |-> << >>, nrows |-> 0,
      badCell |-> << 0, 0 >>, rowsErr |-> FALSE]}
    \cup
    {cur \in [columnsErr : {FALSE}, columns : ColumnLists(t),
              nrows : 0..MaxRows, rowsErr : BOOLEAN,
              badCell : {<< 0, 0 >>} \cup ((1..MaxRows) \X (1..MaxCols))] :
         cur.badCell[1] <= cur.nrows /\ cur.badCell[2] <= Len(cur.columns)}

NoCursor ==
    [columnsErr |-> FALSE, columns |-> << >>, nrows |-> 0,
     badCell |-> << 0, 0 >>, rowsErr |-> FALSE]

\* the value the driver holds in row i, column j: all distinct, none zero
Cell(i, j) == Scalar(10 * i + j)

NoCalls == [Columns |-> 0, Next |-> 0, Scan |-> 0, Err |-> 0, Close |-> 0]

\* a row of type t whose scalars are all distinct and none zero
RECURSIVE Fill(_, _)
Fill(t, seed) ==
    StructOf([i \in 1..NumField(t) |->
                 CASE Types[t][i].Kind = "struct" ->
                          Fill(Types[t][i].Elem, 10 * seed + i)
                   [] Types[t][i].Kind = "ptr" -> NilPtr
                   [] OTHER -> Scalar(10 * seed + i)])

\* what the input sequence may yield: one of two rows, or an error
Items(t) ==
    {[row |-> Fill(t, k), err |-> Nil] : k \in 1..2}
    \cup {[row |-> Zero(t), err |-> ErrInput]}

Inputs(t) == UNION {[1..n -> Items(t)] : n \in 0..MaxInput}

\* an option as the application writes it
Option(opt, columnNames) ==
    [opt |-> opt, columnNames |-> columnNames, structFieldIndexes |-> << >>]

\* the option lists: none, ExecArgsFields(names...), ExecArgs(fn),
\* ExecQuery(fn), and two options together
OptionLists(t) ==
    {<< >>, << Option("ExecArgs", << >>) >>, << Option("ExecQuery", << >>) >>,
     << Option("ExecArgs", << >>), Option("ExecQuery", << >>) >>}
    \cup {<< Option("ExecArgsFields", c) >> : c \in ColumnLists(t)}

NoOptions == [args |-> Nil, query |-> Nil, structFieldIndexes |-> << >>]

\* the query text passed by the application
BaseQuery == << "query" >>

IdleProcs ==
    /\ fpc = [p \in 1..NumProcs |-> "idle"]
    /\ ftype = [p \in 1..NumProcs |-> "person"]
    /\ fcache = [p \in 1..NumProcs |-> EmptyCache]
    /\ fnew = [p \in 1..NumProcs |-> EmptyCache]
    /\ ffields = [p \in 1..NumProcs |-> << >>]
    /\ flookups = 0

\* the application is about to call Scan, QueryContext or ExecContext
Init ==
    /\ api \in {"Scan", "QueryContext", "ExecContext"}
    /\ T \in RowTypes
    /\ queryErr \in (IF api = "QueryContext" THEN BOOLEAN ELSE {FALSE})
    /\ cursor \in (IF api = "ExecContext" \/ queryErr
                   THEN {NoCursor} ELSE Cursors(T))
    /\ input \in (IF api = "ExecContext" THEN Inputs(T) ELSE {<< >>})
    /\ opts \in (IF api = "ExecContext" THEN OptionLists(T) ELSE {<< >>})
    /\ pc = "start"
    /\ seqKind = "none"
    /\ pass = 0
    /\ out = << >>
    /\ stopped = FALSE
    /\ submits = 0
    /\ calls = NoCalls
    /\ curPos = 0
    /\ curClosed = FALSE
    /\ scanArgs = << >>
    /\ row = Zero(T)
    /\ options = NoOptions
    /\ inPos = 0
    /\ r = Zero(T)
    /\ execArgs = << >>
    /\ execLog = << >>
    /\ cachedFields = EmptyCache
    /\ IdleProcs

scanVars == << calls, curPos, curClosed, scanArgs, row >>

execVars == << options, inPos, r, execArgs, execLog >>

inputVars == << api, T, cursor, queryErr, input >>

(***************************************************************************)
(* The calls.                                                              *)
(***************************************************************************)
\* Scan(rows) returns its closure
CallScan ==
    /\ pc = "start" /\ api = "Scan"
    /\ seqKind' = "scan"
    /\ pc' = "idle"
    /\ UNCHANGED << inputVars, opts, pass, out, stopped, submits, scanVars,
                    execVars, cachedFields, procVars >>

\* a QueryContext that does not look at the error of the submission
CallQueryContextIgnoringErr ==
    /\ pc = "start" /\ api = "QueryContext"
    /\ submits' = submits + 1
    /\ seqKind' = "scan"
    /\ pc' = "idle"
    /\ UNCHANGED << inputVars, opts, pass, out, stopped, scanVars, execVars,
                    cachedFields, procVars >>

\* a QueryContext that returns a sequence without submitting the query
CallQueryContextLazy ==
    /\ pc = "start" /\ api = "QueryContext"
    /\ submits' = submits
    /\ seqKind' = IF queryErr THEN "queryErr" ELSE "scan"
    /\ pc' = "idle"
    /\ UNCHANGED << inputVars, opts, pass, out, stopped, scanVars, execVars,
                    cachedFields, procVars >>

\* a QueryContext that closes the rows it obtained before it returns
CallQueryContextClosing ==
    /\ pc = "start" /\ api = "QueryContext"
    /\ submits' = submits + 1
    /\ seqKind' = IF queryErr THEN "queryErr" ELSE "scan"
    /\ pc' = "idle"
    /\ calls' = IF queryErr THEN calls ELSE [calls EXCEPT !.Close = @ + 1]
    /\ curClosed' = ~queryErr
    /\ UNCHANGED << inputVars, opts, pass, out, stopped, curPos, scanArgs,
                    row, execVars, cachedFields, procVars >>

\* QueryContext submits the query and returns the error closure or Scan(rows)
CallQueryContext ==
    /\ pc = "start" /\ api = "QueryContext"
    /\ submits' = submits + 1
    /\ seqKind' = IF queryErr THEN "queryErr" ELSE "scan"
    /\ pc' = "idle"
    /\ UNCHANGED << inputVars, opts, pass, out, stopped, scanVars, execVars,
                    cachedFields, procVars >>

\* yield(v, err): the pair goes to the consumer, which holds control until it
\* resumes the sequence from site
Yield(v, err, site) ==
    /\ out' = Append(out, [val |-> v, err |-> err])
    /\ pc' = site

\* the consumer starts to range over the returned sequence
Range ==
    /\ pc \in {"idle", "returned"}
    /\ pass < MaxPasses
    /\ pass' = pass + 1
    /\ out' = << >>
    /\ stopped' = FALSE
    /\ execLog' = << >>
    /\ pc' = CASE seqKind = "scan" -> "scan_columns"
               [] seqKind = "queryErr" -> "query_err"
               [] OTHER -> "exec_options"
    /\ UNCHANGED << inputVars, opts, seqKind, submits, scanVars, options,
                    inPos, r, execArgs, cachedFields, procVars >>

\* QueryContext's error closure: var zero Row; yield(zero, err)
QueryErrYield ==
    /\ pc = "query_err"
    /\ Yield(Zero(T), ErrQuery, "y_queryErr")
    /\ UNCHANGED << inputVars, opts, seqKind, pass, stopped, submits,
                    scanVars, execVars, cachedFields, procVars >>

(***************************************************************************)
(* Scan.                                                                   *)
(***************************************************************************)
\* a scan target: nil, or the address of the field of *row at index
NilTarget == [bound |-> FALSE, index |-> << >>]

AddrOf(index) == [bound |-> TRUE, index |-> index]

\* the loop over Fields(val.Type()) that fills scanArgs, from entry k on;
\* panic is TRUE where val.FieldByIndex(...).Addr().Interface() panics
RECURSIVE BindFrom(_, _, _, _, _)
BindFrom(args, columns, fields, t, k) ==
    IF k > Len(fields) THEN [panic |-> FALSE, args |-> args]
    ELSE LET columnIndex == SlicesIndex(columns, fields[k].name)
             index == fields[k].field.Index
         IN  IF columnIndex < 0
             THEN BindFrom(args, columns, fields, t, k + 1)
             ELSE IF ~Locate(t, index).ok
                  THEN [panic |-> TRUE, args |-> args]
                  ELSE BindFrom([args EXCEPT ![columnIndex + 1] = AddrOf(index)],
                                columns, fields, t, k + 1)

\* a loop that keeps the first field bound to a column
RECURSIVE BindFirstFrom(_, _, _, _, _)
BindFirstFrom(args, columns, fields, t, k) ==
    IF k > Len(fields) THEN [panic |-> FALSE, args |-> args]
    ELSE LET columnIndex == SlicesIndex(columns, fields[k].name)
             index == fields[k].field.Index
         IN  IF columnIndex < 0
             THEN BindFirstFrom(args, columns, fields, t, k + 1)
             ELSE IF ~Locate(t, index).ok
                  THEN [panic |-> TRUE, args |-> args]
                  ELSE BindFirstFrom(
                           IF args[columnIndex + 1].bound THEN args
                           ELSE [args EXCEPT ![columnIndex + 1] = AddrOf(index)],
                           columns, fields, t, k + 1)

\* a Scan that binds a column to the first field that declares it
BindFirst(columns, fields, t) ==
    BindFirstFrom([j \in 1..Len(columns) |-> NilTarget], columns, fields, t, 1)

\* scanArgs := make([]any, len(columns)), then the loop
Bind(columns, fields, t) ==
    BindFrom([j \in 1..Len(columns) |-> NilTarget], columns, fields, t, 1)

\* a rows.Scan that leaves out the columns whose destination is nil
RECURSIVE DecodeSkippingNil(_, _, _, _, _)
DecodeSkippingNil(rowv, args, t, i, j) ==
    IF j > Len(args) THEN [err |-> Nil, row |-> rowv]
    ELSE IF ~args[j].bound THEN DecodeSkippingNil(rowv, args, t, i, j + 1)
    ELSE IF \/ Locate(t, args[j].index).f.Kind # "scalar"
            \/ cursor.badCell = << i, j >>
         THEN [err |-> ErrScan, row |-> rowv]
         ELSE DecodeSkippingNil(Assign(rowv, args[j].index, Cell(i, j)),
                                args, t, i, j + 1)

\* rows.Scan(scanArgs...) on cursor row i, from column j on: database/sql
\* assigns the columns in order and stops at the first it cannot assign: a
\* nil destination, a destination that is no scalar, or a value the driver
\* cannot convert.  The columns before it are already written.
RECURSIVE DecodeFrom(_, _, _, _, _)
DecodeFrom(rowv, args, t, i, j) ==
    IF j > Len(args) THEN [err |-> Nil, row |-> rowv]
    ELSE IF \/ ~args[j].bound
            \/ Locate(t, args[j].index).f.Kind # "scalar"
            \/ cursor.badCell = << i, j >>
         THEN [err |-> ErrScan, row |-> rowv]
         ELSE DecodeFrom(Assign(rowv, args[j].index, Cell(i, j)),
                         args, t, i, j + 1)

\* a Scan that never closes its rows
NoClose(c) == c

\* a Scan that closes its rows where it returns and again when deferred
CloseTwice(c) == [c EXCEPT !.Close = @ + 2]

\* defer rows.Close()
DeferredClose(c) == [c EXCEPT !.Close = @ + 1]

\* a Scan that yields *row beside an error
RowAsErrorValue(zero, rowv) == rowv

\* the value Scan yields beside an error: zero
ErrorValue(zero, rowv) == zero

\* Scan's closure returns: the deferred rows.Close() runs
ScanReturn(to) ==
    /\ calls' = DeferredClose(calls)
    /\ curClosed' = (curClosed \/ calls'.Close > calls.Close)
    /\ pc' = to

\* columns, err := rows.Columns(); a closed *sql.Rows reports an error
ScanColumns ==
    /\ pc = "scan_columns"
    /\ calls' = [calls EXCEPT !.Columns = @ + 1]
    /\ IF cursor.columnsErr \/ curClosed
       THEN Yield(ErrorValue(Zero(T), row), ErrColumns, "y_columnsErr")
       ELSE pc' = "scan_bind" /\ out' = out
    /\ UNCHANGED << inputVars, opts, seqKind, pass, stopped, submits, curPos,
                    curClosed, scanArgs, row, execVars, cachedFields,
                    procVars >>

\* scanArgs, row, val and the loop over Fields(val.Type())
ScanBind ==
    /\ pc = "scan_bind"
    /\ LET b == Bind(cursor.columns, FieldsOf(cachedFields, T), T)
       IN  /\ scanArgs' = b.args
           /\ IF b.panic
              THEN ScanReturn("panicked")
              ELSE pc' = "scan_next" /\ UNCHANGED << calls, curClosed >>
    /\ row' = Zero(T)
    /\ cachedFields' = Published(cachedFields, T)
    /\ UNCHANGED << inputVars, opts, seqKind, pass, out, stopped, submits,
                    curPos, execVars, procVars >>

\* a Scan that reports a column bound to no field before it asks for a row
ScanNextCheckingArgs ==
    /\ pc = "scan_next"
    /\ IF \E j \in 1..Len(scanArgs) : ~scanArgs[j].bound
       THEN /\ Yield(ErrorValue(Zero(T), row), ErrScan, "y_decodeErr")
            /\ UNCHANGED << calls, curPos, curClosed >>
       ELSE /\ calls' = [calls EXCEPT !.Next = @ + 1]
            /\ out' = out
            /\ IF ~curClosed /\ curPos < cursor.nrows
               THEN /\ curPos' = curPos + 1 /\ pc' = "scan_decode"
                    /\ curClosed' = curClosed
               ELSE /\ curPos' = curPos /\ pc' = "scan_err"
                    /\ curClosed' = TRUE
    /\ UNCHANGED << inputVars, opts, seqKind, pass, stopped, submits,
                    scanArgs, row, execVars, cachedFields, procVars >>

\* rows.Next(): at the end (or on an error) database/sql closes the rows
ScanNext ==
    /\ pc = "scan_next"
    /\ calls' = [calls EXCEPT !.Next = @ + 1]
    /\ IF ~curClosed /\ curPos < cursor.nrows
       THEN curPos' = curPos + 1 /\ pc' = "scan_decode" /\ curClosed' = curClosed
       ELSE curPos' = curPos /\ pc' = "scan_err" /\ curClosed' = TRUE
    /\ UNCHANGED << inputVars, opts, seqKind, pass, out, stopped, submits,
                    scanArgs, row, execVars, cachedFields, procVars >>

\* rows.Scan(scanArgs...), then yield(zero, err) or yield(*row, nil)
ScanDecode ==
    /\ pc = "scan_decode"
    /\ calls' = [calls EXCEPT !.Scan = @ + 1]
    /\ LET d == DecodeFrom(row, scanArgs, T, curPos, 1)
       IN  /\ row' = d.row
           /\ IF d.err # Nil
              THEN Yield(ErrorValue(Zero(T), d.row), d.err, "y_decodeErr")
              ELSE Yield(d.row, Nil, "y_row")
    /\ UNCHANGED << inputVars, opts, seqKind, pass, stopped, submits, curPos,
                    curClosed, scanArgs, execVars, cachedFields, procVars >>

\* a Scan that returns after its loop without yielding the error of rows.Err()
ScanErrSilent ==
    /\ pc = "scan_err"
    /\ calls' = DeferredClose([calls EXCEPT !.Err = @ + 1])
    /\ curClosed' = TRUE
    /\ pc' = "returned"
    /\ out' = out
    /\ UNCHANGED << inputVars, opts, seqKind, pass, stopped, submits, curPos,
                    scanArgs, row, execVars, cachedFields, procVars >>

\* rows.Err() after the loop: yield(zero, err), or the closure returns
ScanErr ==
    /\ pc = "scan_err"
    /\ IF cursor.rowsErr
       THEN /\ calls' = [calls EXCEPT !.Err = @ + 1]
            /\ Yield(ErrorValue(Zero(T), row), ErrRows, "y_rowsErr")
            /\ curClosed' = curClosed
       ELSE /\ calls' = DeferredClose([calls EXCEPT !.Err = @ + 1])
            /\ curClosed' = TRUE
            /\ pc' = "returned"
            /\ out' = out
    /\ UNCHANGED << inputVars, opts, seqKind, pass, stopped, submits, curPos,
                    scanArgs, row, execVars, cachedFields, procVars >>

\* the consumer resumes Scan after a row: yield returns ok
ResumeRow(ok) ==
    /\ pc = "y_row"
    /\ stopped' = ~ok
    /\ IF ok
       THEN /\ row' = Zero(T)
            /\ pc' = "scan_next"
            /\ UNCHANGED << calls, curClosed >>
       ELSE /\ ScanReturn("returned")
            /\ row' = row
    /\ UNCHANGED << inputVars, opts, seqKind, pass, out, submits, curPos,
                    scanArgs, execVars, cachedFields, procVars >>

\* the consumer resumes Scan after an error pair: the closure returns
ResumeScanErr(ok) ==
    /\ pc \in {"y_columnsErr", "y_decodeErr", "y_rowsErr"}
    /\ stopped' = ~ok
    /\ ScanReturn("returned")
    /\ UNCHANGED << inputVars, opts, seqKind, pass, out, submits, curPos,
                    scanArgs, row, execVars, cachedFields, procVars >>

\* the consumer resumes QueryContext's error closure, which returns
ResumeQueryErr(ok) ==
    /\ pc = "y_queryErr"
    /\ stopped' = ~ok
    /\ pc' = "returned"
    /\ UNCHANGED << inputVars, opts, seqKind, pass, out, submits, scanVars,
                    execVars, cachedFields, procVars >>

(***************************************************************************)
(* The options of ExecContext.                                             *)
(***************************************************************************)
NilIndex == [set |-> FALSE, index |-> << >>]

\* ExecArgsFields: the loop that fills structFieldIndexes, from entry k on
RECURSIVE IndexesFrom(_, _, _, _)
IndexesFrom(indexes, columnNames, fields, k) ==
    IF k > Len(fields) THEN indexes
    ELSE LET columnIndex == SlicesIndex(columnNames, fields[k].name)
         IN  IndexesFrom(IF columnIndex >= 0
                         THEN [indexes EXCEPT ![columnIndex + 1] =
                                  [set |-> TRUE, index |-> fields[k].field.Index]]
                         ELSE indexes,
                         columnNames, fields, k + 1)

\* structFieldIndexes of ExecArgsFields(columnNames...)
StructFieldIndexes(columnNames, fields) ==
    IndexesFrom([j \in 1..Len(columnNames) |-> NilIndex], columnNames, fields, 1)

\* an ExecArgsFields that does not look for nil in structFieldIndexes
NeverNotFound(indexes) == FALSE

\* ExecArgsFields panics: some structFieldIndex is nil
ColumnNotFound(indexes) == \E j \in 1..Len(indexes) : ~indexes[j].set

\* the option value an option expression evaluates to
Construct(o, fields) ==
    IF o.opt = "ExecArgsFields"
    THEN [o EXCEPT !.structFieldIndexes =
                       StructFieldIndexes(o.columnNames, fields)]
    ELSE o

\* for _, opt := range opts { opt(options) }, from option k on
RECURSIVE ApplyFrom(_, _, _)
ApplyFrom(o, os, k) ==
    IF k > Len(os) THEN o
    ELSE ApplyFrom(
             CASE os[k].opt = "ExecArgsFields" ->
                      [o EXCEPT !.args = "fields",
                                !.structFieldIndexes = os[k].structFieldIndexes]
               [] os[k].opt = "ExecArgs" -> [o EXCEPT !.args = "fn"]
               [] OTHER -> [o EXCEPT !.query = "fn"],
             os, k + 1)

\* the options after the defaults are set
WithDefaults(o) ==
    [o EXCEPT !.args = IF @ = Nil THEN "default" ELSE @,
              !.query = IF @ = Nil THEN "default" ELSE @]

\* append v.FieldByIndex(index).Interface() for each index, from the k-th on;
\* panic is TRUE where reflect panics
RECURSIVE AppendFieldsOf(_, _, _, _, _)
AppendFieldsOf(args, v, t, indexes, k) ==
    IF k > Len(indexes) THEN [panic |-> FALSE, args |-> args]
    ELSE IF ~Locate(t, indexes[k]).ok
         THEN [panic |-> TRUE, args |-> args]
         ELSE AppendFieldsOf(Append(args, FieldByIndex(v, indexes[k])),
                             v, t, indexes, k + 1)

\* the default of options.args: it reads val, the new(Row) of its closure,
\* and not its second parameter
DefaultArgs(args, rowv, fields, t) ==
    AppendFieldsOf(args, Zero(t), t,
                   [k \in 1..Len(fields) |-> fields[k].field.Index], 1)

\* the function ExecArgsFields passes to ExecArgs
FieldsArgs(args, rowv, indexes, t) ==
    AppendFieldsOf(args, rowv, t,
                   [k \in 1..Len(indexes) |-> indexes[k].index], 1)

\* a function the application passes to ExecArgs: it appends the row's fields
AppArgs(args, rowv) == [panic |-> FALSE, args |-> args \o rowv.fields]

\* a function the application passes to ExecQuery: text that depends on the row
AppQuery(query, rowv) == Append(query, rowv)

\* options.args(args, rowv)
OptionsArgs(o, args, rowv, fields, t) ==
    CASE o.args = "default" -> DefaultArgs(args, rowv, fields, t)
      [] o.args = "fields" -> FieldsArgs(args, rowv, o.structFieldIndexes, t)
      [] OTHER -> AppArgs(args, rowv)

\* options.query(query, rowv)
OptionsQuery(o, query, rowv) ==
    IF o.query = "default" THEN query ELSE AppQuery(query, rowv)

\* a buffer handed to options.args with the arguments of the row before
NoReset(args) == args

\* execArgs[:0]
Reset(args) == SubSeq(args, 1, 0)

\* what e.ExecContext may return
ExecOutcomes ==
    {[res |-> SomeResult, err |-> Nil], [res |-> Nil, err |-> ErrExec],
     [res |-> SomeResult, err |-> ErrExec]}

(***************************************************************************)
(* ExecContext.                                                            *)
(***************************************************************************)
\* the application evaluates its option expressions (ExecArgsFields may
\* panic) and calls ExecContext, which returns its closure
CallExecContext ==
    /\ pc = "start" /\ api = "ExecContext"
    /\ LET fields == FieldsOf(cachedFields, T)
           built == [k \in 1..Len(opts) |-> Construct(opts[k], fields)]
       IN  /\ opts' = built
           /\ IF \E k \in 1..Len(built) :
                     ColumnNotFound(built[k].structFieldIndexes)
              THEN pc' = "panicked" /\ seqKind' = seqKind
              ELSE pc' = "idle" /\ seqKind' = "exec"
    /\ cachedFields' =
           IF \E k \in 1..Len(opts) : opts[k].opt = "ExecArgsFields"
           THEN Published(cachedFields, T) ELSE cachedFields
    /\ UNCHANGED << inputVars, pass, out, stopped, submits, scanVars,
                    execVars, procVars >>

\* options := new(execOptions[Row]), the options, the defaults, and
\* var execArgs []any
ExecOptions ==
    /\ pc = "exec_options"
    /\ options' = WithDefaults(ApplyFrom(NoOptions, opts, 1))
    /\ execArgs' = << >>
    /\ inPos' = 0
    /\ pc' = "exec_pull"
    /\ UNCHANGED << inputVars, opts, seqKind, pass, out, stopped, submits,
                    scanVars, r, execLog, cachedFields, procVars >>

\* an ExecContext that pulls the elements of its input ahead of the
\* executions: it executes only the last one it pulled
ExecPullAhead ==
    /\ pc = "exec_pull"
    /\ IF inPos >= Len(input)
       THEN pc' = "returned" /\ UNCHANGED << inPos, r, out >>
       ELSE /\ inPos' = inPos + 1
            /\ r' = input[inPos + 1].row
            /\ IF input[inPos + 1].err # Nil
               THEN Yield(Nil, input[inPos + 1].err, "y_inputErr")
               ELSE /\ pc' = IF inPos + 1 < Len(input)
                             THEN "exec_pull" ELSE "exec_run"
                    /\ out' = out
    /\ UNCHANGED << inputVars, opts, seqKind, pass, stopped, submits,
                    scanVars, options, execArgs, execLog, cachedFields,
                    procVars >>

\* for r, err := range seq: the next element, yield(nil, err) on an error
ExecPull ==
    /\ pc = "exec_pull"
    /\ IF inPos >= Len(input)
       THEN pc' = "returned" /\ UNCHANGED << inPos, r, out >>
       ELSE /\ inPos' = inPos + 1
            /\ r' = input[inPos + 1].row
            /\ IF input[inPos + 1].err # Nil
               THEN Yield(Nil, input[inPos + 1].err, "y_inputErr")
               ELSE pc' = "exec_run" /\ out' = out
    /\ UNCHANGED << inputVars, opts, seqKind, pass, stopped, submits,
                    scanVars, options, execArgs, execLog, cachedFields,
                    procVars >>

\* execArgs, execQuery, e.ExecContext(ctx, execQuery, execArgs...) and
\* yield(res, err)
ExecRun ==
    /\ pc = "exec_run"
    /\ LET a == OptionsArgs(options, Reset(execArgs), r,
                            FieldsOf(cachedFields, T), T)
       IN  /\ execArgs' = a.args
           /\ IF a.panic
              THEN pc' = "panicked" /\ UNCHANGED << execLog, out >>
              ELSE \E o \in ExecOutcomes :
                      /\ execLog' = Append(execLog,
                             [query |-> OptionsQuery(options, BaseQuery, r),
                              args |-> a.args, res |-> o.res, err |-> o.err])
                      /\ Yield(o.res, o.err, "y_result")
    /\ cachedFields' = IF options.args = "default"
                       THEN Published(cachedFields, T) ELSE cachedFields
    /\ UNCHANGED << inputVars, opts, seqKind, pass, stopped, submits,
                    scanVars, options, inPos, r, procVars >>

\* an ExecContext that goes on with its loop after a failed execution
ResumeResultIgnoringErr(ok) ==
    /\ pc = "y_result"
    /\ stopped' = ~ok
    /\ pc' = IF ~ok THEN "returned" ELSE "exec_pull"
    /\ UNCHANGED << inputVars, opts, seqKind, pass, out, submits, scanVars,
                    execVars, cachedFields, procVars >>

\* an ExecContext that goes on with its loop after the consumer's stop
ResumeResultIgnoringStop(ok) ==
    /\ pc = "y_result"
    /\ stopped' = ~ok
    /\ pc' = IF out[Len(out)].err # Nil THEN "returned" ELSE "exec_pull"
    /\ UNCHANGED << inputVars, opts, seqKind, pass, out, submits, scanVars,
                    execVars, cachedFields, procVars >>

\* the consumer resumes ExecContext after a result
ResumeResult(ok) ==
    /\ pc = "y_result"
    /\ stopped' = ~ok
    /\ pc' = IF ~ok \/ out[Len(out)].err # Nil THEN "returned" ELSE "exec_pull"
    /\ UNCHANGED << inputVars, opts, seqKind, pass, out, submits, scanVars,
                    execVars, cachedFields, procVars >>

\* an ExecContext that goes on with its loop after the input's error
ResumeInputErrNoReturn(ok) ==
    /\ pc = "y_inputErr"
    /\ stopped' = ~ok
    /\ pc' = IF ok THEN "exec_pull" ELSE "returned"
    /\ UNCHANGED << inputVars, opts, seqKind, pass, out, submits, scanVars,
                    execVars, cachedFields, procVars >>

\* the consumer resumes ExecContext after the input's error: it returns
ResumeInputErr(ok) ==
    /\ pc = "y_inputErr"
    /\ stopped' = ~ok
    /\ pc' = "returned"
    /\ UNCHANGED << inputVars, opts, seqKind, pass, out, submits, scanVars,
                    execVars, cachedFields, procVars >>

(***************************************************************************)
(* One call of the package and the consumer's passes over its sequence.    *)
(***************************************************************************)
Next ==
    \/ CallScan
    \/ CallQueryContext
    \/ CallExecContext
    \/ Range
    \/ QueryErrYield
    \/ ScanColumns
    \/ ScanBind
    \/ ScanNext
    \/ ScanDecode
    \/ ScanErr
    \/ \E ok \in BOOLEAN : ResumeRow(ok)
    \/ \E ok \in BOOLEAN : ResumeScanErr(ok)
    \/ \E ok \in BOOLEAN : ResumeQueryErr(ok)
    \/ ExecOptions
    \/ ExecPull
    \/ ExecRun
    \/ \E ok \in BOOLEAN : ResumeResult(ok)
    \/ \E ok \in BOOLEAN : ResumeInputErr(ok)

Spec == Init /\ [][Next]_vars

(***************************************************************************)
(* Goroutines ranging over Fields(t) concurrently.  The atomic steps are   *)
(* cachedFields.Load() and cachedFields.Store(newCache); between them a    *)
(* goroutine that missed fills its own newCache, one entry of the loaded   *)
(* map at a time, in the order the map iteration takes.                    *)
(***************************************************************************)
\* the types looked up concurrently
LookupTypes == {"person", "mixed", "deep", "dup", "tagged"}

\* m[k] = v on a map
MapPut(m, k, v) == [j \in DOMAIN m \cup {k} |-> IF j = k THEN v ELSE m[j]]

\* the copy loop storing the new fields under every copied key
CopyEntryOfFields(new, cache, k, fields) == MapPut(new, k, fields)

\* newCache[k] = v, for k, v of the loaded map
CopyEntry(new, cache, k, fields) == MapPut(new, k, cache[k])

\* a copy loop that is left before it has visited every entry
CopyLeftEarly(new, cache) == TRUE

\* the loop over the loaded map has visited every entry
CopyDone(new, cache) == DOMAIN cache \subseteq DOMAIN new

\* cache, _ := cachedFields.Load(); fields, ok := cache[t]; on a miss
\* fields = appendFields(nil, t) and newCache := make(map, len(cache)+1)
FieldsLoad(p, t) ==
    /\ fpc[p] = "idle"
    /\ flookups < MaxLookups
    /\ flookups' = flookups + 1
    /\ ftype' = [ftype EXCEPT ![p] = t]
    /\ fcache' = [fcache EXCEPT ![p] = cachedFields]
    /\ IF CacheHit(cachedFields, t)
       THEN /\ ffields' = [ffields EXCEPT ![p] = cachedFields[t]]
            /\ fpc' = [fpc EXCEPT ![p] = "range"]
       ELSE /\ ffields' = [ffields EXCEPT ![p] = appendFields(<< >>, t)]
            /\ fpc' = [fpc EXCEPT ![p] = "copy"]
    /\ UNCHANGED << pipeVars, cachedFields, fnew >>

\* for k, v := range cache { newCache[k] = v }: one iteration
FieldsCopy(p) ==
    /\ fpc[p] = "copy"
    /\ ~CopyDone(fnew[p], fcache[p])
    /\ \E k \in DOMAIN fcache[p] \ DOMAIN fnew[p] :
           fnew' = [fnew EXCEPT
                       ![p] = CopyEntry(fnew[p], fcache[p], k, ffields[p])]
    /\ UNCHANGED << pipeVars, cachedFields, fpc, ftype, fcache, ffields,
                    flookups >>

\* newCache[t] = fields; cachedFields.Store(newCache)
FieldsStore(p) ==
    /\ fpc[p] = "copy"
    /\ CopyDone(fnew[p], fcache[p])
    /\ fnew' = [fnew EXCEPT ![p] = MapPut(fnew[p], ftype[p], ffields[p])]
    /\ cachedFields' = MapPut(fnew[p], ftype[p], ffields[p])
    /\ fpc' = [fpc EXCEPT ![p] = "range"]
    /\ UNCHANGED << pipeVars, ftype, fcache, ffields, flookups >>

\* for _, f := range fields: the caller receives the fields; Fields returns
FieldsRange(p) ==
    /\ fpc[p] = "range"
    /\ fpc' = [fpc EXCEPT ![p] = "idle"]
    /\ ftype' = [ftype EXCEPT ![p] = "person"]
    /\ fcache' = [fcache EXCEPT ![p] = EmptyCache]
    /\ fnew' = [fnew EXCEPT ![p] = EmptyCache]
    /\ ffields' = [ffields EXCEPT ![p] = << >>]
    /\ UNCHANGED << pipeVars, cachedFields, flookups >>

\* no pipeline runs: only goroutines calling Fields
InitCache ==
    /\ api = "Fields"
    /\ T = "person"
    /\ queryErr = FALSE
    /\ cursor = NoCursor
    /\ input = << >>
    /\ opts = << >>
    /\ pc = "start"
    /\ seqKind = "none"
    /\ pass = 0
    /\ out = << >>
    /\ stopped = FALSE
    /\ submits = 0
    /\ calls = NoCalls
    /\ curPos = 0
    /\ curClosed = FALSE
    /\ scanArgs = << >>
    /\ row = Zero(T)
    /\ options = NoOptions
    /\ inPos = 0
    /\ r = Zero(T)
    /\ execArgs = << >>
    /\ execLog = << >>
    /\ cachedFields = EmptyCache
    /\ IdleProcs

NextCache ==
    \/ \E p \in 1..NumProcs : \E t \in LookupTypes : FieldsLoad(p, t)
    \/ \E p \in 1..NumProcs : FieldsCopy(p)
    \/ \E p \in 1..NumProcs : FieldsStore(p)
    \/ \E p \in 1..NumProcs : FieldsRange(p)

SpecCache == InitCache /\ [][NextCache]_vars

(***************************************************************************)
(* Properties.                                                             *)
(***************************************************************************)
\* the last pair yielded in this pass
Last == out[Len(out)]

\* a pass over the sequence has ended: its closure returned, or panicked
PassOver == pc \in {"returned", "panicked"}

\* C1: when a pass over a sequence returned by Scan (or by QueryContext after
\* a successful submission) is over, rows.Close() has been called in that
\* pass and the rows are closed, whichever way the pass ended: exhaustion,
\* the consumer's stop, or an error of Columns, Scan or Err.  While the
\* consumer still holds a yielded pair, the pass is not over.
C1_ClosedWhenPassOver ==
    (seqKind = "scan" /\ pass >= 1 /\ PassOver)
        => (calls.Close = pass /\ curClosed)

\* C1 witness: QueryContext succeeded, the first row did not decode, the
\* consumer asked to go on, and the pass is over with the rows closed
C1_Witness ==
    /\ api = "QueryContext" /\ seqKind = "scan"
    /\ pass = 1 /\ pc = "returned" /\ ~stopped
    /\ Len(out) = 1 /\ Last.err = ErrScan
    /\ calls.Close = 1

\* C2: when the consumer stops after a row while the cursor has more rows,
\* the pass ends with rows.Close() called exactly once (and not before the
\* consumer stopped)
C2_StopClosesOnce ==
    /\ (seqKind = "scan" /\ pc = "returned" /\ stopped /\ Len(out) >= 1
          /\ Last.err = Nil /\ curPos < cursor.nrows)
           => calls.Close = 1
    /\ (seqKind = "scan" /\ pc = "y_row" /\ pass = 1) => calls.Close = 0

\* C2 witness: the consumer stopped after the first of two rows
C2_Witness ==
    /\ seqKind = "scan" /\ pc = "returned" /\ stopped
    /\ cursor.nrows = 2 /\ curPos = 1
    /\ Len(out) = 1 /\ Last.err = Nil
    /\ calls.Close = 1

\* C3: when the k-th element pulled from the input is an error, no element
\* before it was an error (no pull follows an error), it is the k-th pair
\* yielded, k - 1 executions were made, and control is at the consumer or
\* the pass is over; the input is never pulled past an error
C3_InputErrorShortCircuit ==
    /\ (api = "ExecContext" /\ pass >= 1 /\ inPos >= 1
          /\ pc # "exec_options" /\ input[inPos].err # Nil)
           => /\ Len(out) = inPos
              /\ Last.err = input[inPos].err
              /\ Len(execLog) = inPos - 1
              /\ pc \in {"y_inputErr", "returned"}
    /\ (api = "ExecContext" /\ pass >= 1 /\ pc # "exec_options")
           => \A j \in 1..(inPos - 1) : input[j].err = Nil

\* C3 witness: the second element is an error, more input follows, the
\* consumer asked to go on and the pass is over after one execution
C3_Witness ==
    /\ api = "ExecContext" /\ pc = "returned" /\ ~stopped
    /\ inPos = 2 /\ input[2].err = ErrInput /\ Len(input) > 2
    /\ Len(execLog) = 1 /\ Len(out) = 2

\* the index that leads from type t to the field named name, through
\* embedded structs (<< >>: there is none)
RECURSIVE PathTo(_, _)
PathTo(t, name) ==
    LET here == {i \in 0..(NumField(t) - 1) : Field(t, i).Name = name}
        below == {i \in 0..(NumField(t) - 1) :
                     /\ Field(t, i).Kind = "struct"
                     /\ PathTo(Field(t, i).Elem, name) # << >>}
    IN  IF here # {} THEN << CHOOSE i \in here : TRUE >>
        ELSE IF below = {} THEN << >>
        ELSE LET i == CHOOSE i \in below : TRUE
             IN  << i >> \o PathTo(Field(t, i).Elem, name)

\* the values, in rowv, of the fields that declared the entries of t's
\* field map, in its order
MappedValues(t, rowv) ==
    [k \in 1..Len(computeFields(t)) |->
        FieldByIndex(rowv, PathTo(t, computeFields(t)[k].field.Name))]

\* C4: with no ExecArgs or ExecArgsFields option, the arguments of the k-th
\* execution are the values of the k-th input row's mapped fields, in the
\* order of the field map
C4_DefaultArgsAreRowValues ==
    (api = "ExecContext" /\ pass >= 1 /\ pc # "exec_options"
       /\ options.args = "default")
        => \A k \in 1..Len(execLog) :
               execLog[k].args = MappedValues(T, input[k].row)

\* C5: in every field map held by the cache, each entry's Index, followed
\* from the row type, locates the field that declared the entry's column
C5_IndexLocatesDeclaringField ==
    \A t \in DOMAIN cachedFields :
        \A k \in 1..Len(cachedFields[t]) :
            /\ Locate(t, cachedFields[t][k].field.Index).ok
            /\ Locate(t, cachedFields[t][k].field.Index).f.Name
                   = cachedFields[t][k].field.Name

\* C6: a type that has an entry in the map cachedFields holds has an entry
\* in every map stored afterwards
C6_EntriesNeverRemoved ==
    [][\A t \in DOMAIN cachedFields : t \in DOMAIN cachedFields']_vars

\* where control is while the consumer holds a yielded pair
YieldSites ==
    {"y_queryErr", "y_columnsErr", "y_decodeErr", "y_rowsErr", "y_row",
     "y_inputErr", "y_result"}

\* C7: in one pass, a pair with an error is the last pair yielded, and once
\* it is yielded the sequence only waits for the consumer and returns
C7_ErrorEndsSequence ==
    /\ \A i \in 1..Len(out) : out[i].err # Nil => i = Len(out)
    /\ (Len(out) >= 1 /\ Last.err # Nil) => pc \in YieldSites \cup {"returned"}

\* C7 witness: an execution failed, the consumer asked to go on, input was
\* left, and the pass is over
C7_Witness ==
    /\ api = "ExecContext" /\ pc = "returned" /\ ~stopped
    /\ Len(out) = 2 /\ Last.err = ErrExec
    /\ inPos < Len(input)

\* C8 as claimed: every pair with an error carries the zero Row, or the nil
\* Result
C8_ErrorPairsCarryZero ==
    \A i \in 1..Len(out) :
        out[i].err # Nil
            => out[i].val = (IF api = "ExecContext" THEN Nil ELSE Zero(T))

\* C8 amended: a pair with an error yielded by Scan or QueryContext carries
\* the zero Row and the pair ExecContext yields for an error of its input
\* carries the nil Result; the pair it yields for an execution carries the
\* Result and the error e.ExecContext returned, unchanged
C8_ErrorPairsAmended ==
    \A i \in 1..Len(out) :
        IF api = "ExecContext"
        THEN IF i <= Len(execLog)
             THEN out[i] = [val |-> execLog[i].res, err |-> execLog[i].err]
             ELSE out[i] = [val |-> Nil, err |-> input[i].err]
        ELSE out[i].err # Nil => out[i].val = Zero(T)

\* C8 witness: rows.Scan failed after it wrote a column into *row, and the
\* pair yielded carries the zero Row
C8_Witness ==
    /\ seqKind = "scan" /\ pc = "y_decodeErr"
    /\ row # Zero(T)
    /\ Last = [val |-> Zero(T), err |-> ErrScan]

\* C9: when q.QueryContext fails, the sequence returned yields the pair
\* (zero Row, that error) and nothing else in a pass, and no method of a
\* *sql.Rows is ever called
C9_SubmissionFailure ==
    (api = "QueryContext" /\ queryErr /\ pc # "start")
        => /\ seqKind = "queryErr"
           /\ calls = NoCalls
           /\ pc \in {"idle", "query_err", "y_queryErr", "returned"}
           /\ pc \in {"idle", "query_err"} => out = << >>
           /\ pc \in {"y_queryErr", "returned"}
                  => out = << [val |-> Zero(T), err |-> ErrQuery] >>

\* C9 witness: the submission failed and a pass over the sequence is over
C9_Witness ==
    /\ api = "QueryContext" /\ queryErr /\ pc = "returned" /\ ~stopped
    /\ out = << [val |-> Zero(T), err |-> ErrQuery] >>
    /\ calls = NoCalls

\* the cursor reports its columns, one of which no field of T declares, and
\* has a row
UnmappedColumnCase ==
    /\ seqKind = "scan" /\ pass = 1
    /\ ~cursor.columnsErr /\ cursor.nrows >= 1
    /\ \E j \in 1..Len(cursor.columns) :
           \A k \in 1..Len(FieldMaps[T]) :
               FieldMaps[T][k].name # cursor.columns[j]

\* C10: in that case no row is ever yielded, the first pair yielded is the
\* error of rows.Scan with the zero Row, and a pass that returns has yielded
\* that pair alone
C10_UnmappedColumn ==
    UnmappedColumnCase
        => /\ \A i \in 1..Len(out) : out[i].err # Nil
           /\ Len(out) >= 1 => out[1] = [val |-> Zero(T), err |-> ErrScan]
           /\ pc = "returned" => Len(out) = 1

\* C10 witness: columns age, unmapped against person: age was written into
\* *row, the decoding failed on the first of two rows, and the pass is over
C10_Witness ==
    /\ UnmappedColumnCase
    /\ T = "person" /\ cursor.columns = << "age", Unmapped >>
    /\ cursor.nrows = 2 /\ cursor.badCell = << 0, 0 >>
    /\ pc = "returned" /\ curPos = 1
    /\ out = << [val |-> Zero(T), err |-> ErrScan] >>
    /\ row # Zero(T)

\* a Scan pass over a cursor that reports its columns, whose every column has
\* an entry in the field map of Row, whose every cell decodes, and whose final
\* status is no error
AllMappedCase ==
    /\ seqKind = "scan" /\ pass = 1
    /\ ~cursor.columnsErr /\ cursor.badCell = << 0, 0 >> /\ ~cursor.rowsErr
    /\ \A j \in 1..Len(cursor.columns) :
           \E k \in 1..Len(computeFields(T)) :
               computeFields(T)[k].name = cursor.columns[j]

\* C11: in that case every pair yielded is (row_i, nil), in the i-th row a
\* field that declared column j holds the cursor's value for row i and
\* column j, and a pass the consumer never stopped ends having yielded as
\* many pairs as the cursor has rows
C11_AllRowsDecoded ==
    AllMappedCase
        => /\ \A i \in 1..Len(out) :
                /\ out[i].err = Nil
                /\ \A j \in 1..Len(cursor.columns) :
                       \E k \in 1..Len(computeFields(T)) :
                           /\ computeFields(T)[k].name = cursor.columns[j]
                           /\ FieldByIndex(out[i].val,
                                  PathTo(T, computeFields(T)[k].field.Name))
                                  = Cell(i, j)
           /\ (PassOver /\ ~stopped)
                  => (pc = "returned" /\ Len(out) = cursor.nrows)

\* the true paths, from t, of the attributes a field map of t is to hold: an
\* exported anonymous attribute of struct kind is flattened; any other
\* exported attribute counts when it carries a "sql" tag
RECURSIVE Declared(_)
Declared(t) ==
    UNION {LET f == Field(t, i)
           IN  IF f.Exported /\ f.Anonymous /\ f.Kind = "struct"
               THEN {<< i >> \o p : p \in Declared(f.Elem)}
               ELSE IF f.Exported /\ f.HasTag THEN {<< i >>} ELSE {}
           : i \in 0..(NumField(t) - 1)}

\* path p comes before path q in depth-first declaration order
Before(p, q) ==
    \E n \in 1..Len(p) :
        /\ n <= Len(q)
        /\ p[n] < q[n]
        /\ \A m \in 1..(n - 1) : p[m] = q[m]

\* C12: every field map held by the cache has one entry per annotated
\* exported attribute of its type, those of flattened embedded structs
\* counted, in depth-first declaration order, and no entry of an unexported
\* or unannotated attribute
C12_OneEntryPerAnnotatedAttribute ==
    \A t \in DOMAIN cachedFields :
        /\ Len(cachedFields[t]) = Cardinality(Declared(t))
        /\ \A k \in 1..Len(cachedFields[t]) :
               /\ cachedFields[t][k].field.Exported
               /\ cachedFields[t][k].field.HasTag
               /\ \E p \in Declared(t) :
                      /\ Locate(t, p).f.Name = cachedFields[t][k].field.Name
                      /\ Cardinality({q \in Declared(t) : Before(q, p)})
                             = k - 1

\* C13: a goroutine that ranges over the fields of a type, whether it found
\* them in the map it loaded or computed them after a miss, ranges over the
\* field map appendFields computes for that type, and every entry of the map
\* cachedFields holds is the field map of its type, whichever goroutine's
\* Store came last
C13_CallersObtainFieldMap ==
    /\ \A p \in 1..NumProcs :
           fpc[p] = "range" => ffields[p] = computeFields(ftype[p])
    /\ \A t \in DOMAIN cachedFields : cachedFields[t] = computeFields(t)

\* C13 witness: two goroutines looked up mixed, neither found it in the map
\* it loaded, both computed and stored it, and both range over the same
\* fields, which are the entry the cache holds
C13_Witness ==
    /\ fpc[1] = "range" /\ fpc[2] = "range"
    /\ ftype[1] = "mixed" /\ ftype[2] = "mixed"
    /\ ~CacheHit(fcache[1], "mixed") /\ ~CacheHit(fcache[2], "mixed")
    /\ ffields[1] = ffields[2]
    /\ CacheHit(cachedFields, "mixed") /\ cachedFields["mixed"] = ffields[1]

\* ExecContext called with the one option ExecArgsFields(c1, ..., cn), every
\* ci the column name of an entry of the field map of Row
ArgsFieldsCase ==
    /\ api = "ExecContext"
    /\ Len(opts) = 1 /\ opts[1].opt = "ExecArgsFields"
    /\ \A j \in 1..Len(opts[1].columnNames) :
           \E k \in 1..Len(computeFields(T)) :
               computeFields(T)[k].name = opts[1].columnNames[j]

\* C14: in that case the option is built without a panic, and the arguments
\* of the k-th execution are n values, the j-th being the value, in the k-th
\* input row, of a field that declared column cj
C14_ArgsInColumnOrder ==
    ArgsFieldsCase
        => /\ pc # "panicked"
           /\ \A k \in 1..Len(execLog) :
                  /\ Len(execLog[k].args) = Len(opts[1].columnNames)
                  /\ \A j \in 1..Len(opts[1].columnNames) :
                         \E e \in 1..Len(computeFields(T)) :
                             /\ computeFields(T)[e].name
                                    = opts[1].columnNames[j]
                             /\ execLog[k].args[j]
                                    = FieldByIndex(input[k].row,
                                          PathTo(T,
                                              computeFields(T)[e].field.Name))

\* C15: once the consumer has stopped on the j-th result of ExecContext, the
\* sequence has returned, j elements were pulled from the input, j
\* executions were made, one per pair yielded, and none is made afterwards
C15_StopEndsExecutions ==
    (api = "ExecContext" /\ stopped /\ inPos >= 1 /\ input[inPos].err = Nil)
        => /\ pc = "returned"
           /\ Len(out) = inPos
           /\ Len(execLog) = inPos
           /\ \A k \in 1..Len(out) :
                  out[k] = [val |-> execLog[k].res, err |-> execLog[k].err]

\* C15 witness: the consumer stopped on the first result, which carried no
\* error, while the input sequence had two more elements to give
C15_Witness ==
    /\ api = "ExecContext" /\ stopped /\ pc = "returned"
    /\ Len(input) = 3 /\ inPos = 1
    /\ \A k \in 1..3 : input[k].err = Nil
    /\ Len(out) = 1 /\ Last.err = Nil
    /\ Len(execLog) = 1

\* C16: a call of e.ExecContext that returned an error is the last call of
\* the pass, its (res, err) is the last pair yielded, no element is pulled
\* from the input after it, and the sequence only waits for the consumer and
\* returns, whatever the consumer answers
C16_ExecErrorEndsPipeline ==
    api = "ExecContext"
        => \A k \in 1..Len(execLog) :
               execLog[k].err # Nil
                   => /\ k = Len(execLog)
                      /\ Len(out) = k
                      /\ out[k] = [val |-> execLog[k].res,
                                   err |-> execLog[k].err]
                      /\ inPos = k
                      /\ pc \in {"y_result", "returned"}

\* C16 witness: the first of three input elements was executed and failed
\* with no result, the consumer answered to continue, and the pass is over
\* with that one execution
C16_Witness ==
    /\ api = "ExecContext" /\ pc = "returned" /\ ~stopped
    /\ Len(input) = 3 /\ \A k \in 1..3 : input[k].err = Nil
    /\ Len(execLog) = 1 /\ execLog[1].err = ErrExec
    /\ out = << [val |-> Nil, err |-> ErrExec] >>
    /\ inPos = 1

\* C17: q.QueryContext has been called once as soon as QueryContext has
\* returned its sequence, and the count stays one however many times the
\* consumer ranges over the sequence: never, once or again
C17_SubmitsOnceAtCall ==
    api = "QueryContext" => submits = (IF pc = "start" THEN 0 ELSE 1)

\* C17 witness: the query was accepted, the consumer ranged over the
\* sequence twice, reading a row in the first pass, and one query was
\* submitted
C17_Witness ==
    /\ api = "QueryContext" /\ ~queryErr /\ seqKind = "scan"
    /\ pass = 2 /\ pc = "returned"
    /\ calls.Scan >= 1
    /\ submits = 1

\* the first pass of a Scan sequence has left its loop over rows.Next() and
\* asked for rows.Err()
ExhaustedCase == seqKind = "scan" /\ pass = 1 /\ calls.Err = 1

\* C18: in that case every row of the cursor was yielded, the i-th pair
\* being the i-th row decoded into a zero Row, with no error; when rows.Err()
\* reports an error one more pair follows them, (zero, that error), the last
\* of the sequence; when it reports none, no error pair is yielded at all
C18_FinalStatusLast ==
    ExhaustedCase
        => /\ curPos = cursor.nrows
           /\ Len(out) >= curPos
           /\ \A i \in 1..curPos :
                  out[i] = [val |-> DecodeFrom(Zero(T), scanArgs, T, i, 1).row,
                            err |-> Nil]
           /\ IF cursor.rowsErr
              THEN /\ Len(out) = curPos + 1
                   /\ Last = [val |-> Zero(T), err |-> ErrRows]
                   /\ pc \in {"y_rowsErr", "returned"}
              ELSE /\ Len(out) = curPos
                   /\ pc = "returned"

\* C18 witness: two rows of a person cursor were decoded and yielded, then
\* the error of rows.Err() was yielded as the third and last pair
C18_Witness ==
    /\ ExhaustedCase /\ T = "person" /\ cursor.rowsErr /\ cursor.nrows = 2
    /\ pc = "returned" /\ ~stopped
    /\ Len(out) = 3
    /\ out[1].err = Nil /\ out[2].err = Nil /\ out[1].val # out[2].val
    /\ out[3] = [val |-> Zero(T), err |-> ErrRows]

\* C19: the map cachedFields holds changes only by the Store of a goroutine
\* whose newCache is completely built, into the entries of the map that
\* goroutine loaded and the entry of the type it missed; a stored map is
\* never changed in place, and the map a goroutine takes as its cache is the
\* whole map cachedFields held when it loaded
C19_SnapshotsPublishedWhole ==
    [][/\ cachedFields' # cachedFields
           => \E p \in 1..NumProcs :
                  /\ fpc[p] = "copy" /\ fpc'[p] = "range"
                  /\ DOMAIN cachedFields' = DOMAIN fcache[p] \cup {ftype[p]}
                  /\ \A t \in DOMAIN fcache[p] \ {ftype[p]} :
                         cachedFields'[t] = fcache[p][t]
                  /\ cachedFields'[ftype[p]] = ffields[p]
       /\ \A p \in 1..NumProcs :
              fcache'[p] # fcache[p]
                  => \/ fpc[p] = "idle" /\ fcache'[p] = cachedFields
                     \/ fpc'[p] = "idle" /\ fcache'[p] = EmptyCache
      ]_vars

\* C19 witness: a goroutine is filling its newCache, which lacks an entry of
\* the map it loaded, while another goroutine that loaded the map cachedFields
\* holds ranges over the fields it found there
C19_Witness ==
    \E p, q \in 1..NumProcs :
        /\ fpc[p] = "copy" /\ ~CopyDone(fnew[p], fcache[p])
        /\ fpc[q] = "range" /\ CacheHit(fcache[q], ftype[q])
        /\ fcache[q] = cachedFields

\* C20 as stated: every entry of every field map held by the cache has a
\* column name that is not empty and comes from a "sql" tag of its field
C20_NamesNonEmpty ==
    \A t \in DOMAIN cachedFields :
        \A k \in 1..Len(cachedFields[t]) :
            /\ cachedFields[t][k].field.HasTag
            /\ cachedFields[t][k].name # ""

\* C20 amended: every entry's column name is the value of the "sql" tag its
\* field carries, the empty string when the tag is `sql:""`, and every
\* exported named attribute that carries the tag, reached through embedded
\* structs, has its entry under that value
C20_NamesAreDeclaredTags ==
    \A t \in DOMAIN cachedFields :
        /\ \A k \in 1..Len(cachedFields[t]) :
               /\ cachedFields[t][k].field.HasTag
               /\ cachedFields[t][k].name = cachedFields[t][k].field.Tag
        /\ \A p \in Declared(t) :
               ~Locate(t, p).f.Anonymous
                   => \E k \in 1..Len(cachedFields[t]) :
                          /\ cachedFields[t][k].field.Name = Locate(t, p).f.Name
                          /\ cachedFields[t][k].name = Locate(t, p).f.Tag

\* C20 witness: the cache holds the field map of dup, whose third entry is
\* the field Blank under the empty column name
C20_Witness ==
    /\ CacheHit(cachedFields, "dup")
    /\ Len(cachedFields["dup"]) = 3
    /\ cachedFields["dup"][3].field.Name = "Blank"
    /\ cachedFields["dup"][3].name = ""

\* C21: the arguments of the k-th call of e.ExecContext are what options.args
\* returns for an empty list and the k-th input row, and its query is what
\* options.query returns for the base query and that row (the base query
\* when no ExecQuery option is given): nothing of an earlier row is left in
\* execArgs
C21_ArgsBuiltFromEmptyBuffer ==
    (api = "ExecContext" /\ pass >= 1 /\ pc # "exec_options")
        => \A k \in 1..Len(execLog) :
               /\ execLog[k].args
                      = OptionsArgs(options, << >>, input[k].row,
                                    FieldMaps[T], T).args
               /\ execLog[k].query
                      = (IF options.query = "default" THEN BaseQuery
                         ELSE AppQuery(BaseQuery, input[k].row))

\* C21 witness: with ExecArgs and ExecQuery functions of the application, two
\* different person rows were executed, each with its own two arguments and
\* its own query
C21_Witness ==
    /\ api = "ExecContext" /\ T = "person" /\ pc = "returned"
    /\ options.args = "fn" /\ options.query = "fn"
    /\ Len(execLog) = 2
    /\ input[1].row # input[2].row
    /\ execLog[1].args = input[1].row.fields
    /\ execLog[2].args = input[2].row.fields
    /\ execLog[1].query # execLog[2].query

\* C22: ExecContext pulls nothing and executes nothing before the consumer
\* ranges over its sequence; in a pass, when the (k+1)-th element is about
\* to be pulled, k elements were pulled, k executions were made and k pairs
\* were handed to the consumer; the k-th execution is made with the k-th
\* element pulled, after k - 1 executions, and its result is yielded before
\* anything else is pulled
C22_DemandDriven ==
    api = "ExecContext"
        => /\ pass = 0 => (inPos = 0 /\ execLog = << >> /\ out = << >>)
           /\ (pass >= 1 /\ pc # "exec_options")
                  => /\ Len(execLog) <= inPos /\ inPos <= Len(input)
                     /\ pc = "exec_pull"
                            => (Len(execLog) = inPos /\ Len(out) = inPos)
                     /\ pc = "exec_run"
                            => /\ Len(execLog) = inPos - 1
                               /\ Len(out) = inPos - 1
                               /\ r = input[inPos].row
                     /\ pc = "y_result"
                            => /\ Len(execLog) = inPos /\ Len(out) = inPos
                               /\ Last = [val |-> execLog[inPos].res,
                                          err |-> execLog[inPos].err]

\* C22 witness: three elements were pulled and executed one after the other,
\* and the consumer holds the third result
C22_Witness ==
    /\ api = "ExecContext" /\ pass = 1 /\ pc = "y_result"
    /\ Len(input) = 3 /\ inPos = 3
    /\ Len(execLog) = 3 /\ Len(out) = 3
    /\ \A k \in 1..3 : out[k].err = Nil

\* C23: as long as the consumer has not begun to range over the sequence
\* returned by Scan or by a successful QueryContext, no method of the rows
\* was called, rows.Close() among them, and the rows are open
C23_OpenUntilIterated ==
    (api \in {"Scan", "QueryContext"} /\ ~queryErr /\ pass = 0)
        => (calls = NoCalls /\ ~curClosed)

\* C23 witness: QueryContext has submitted its query and returned the
\* sequence over a cursor of two rows; the consumer has not ranged over it
C23_Witness ==
    /\ api = "QueryContext" /\ seqKind = "scan" /\ pc = "idle" /\ pass = 0
    /\ submits = 1 /\ cursor.nrows = 2
    /\ calls.Close = 0 /\ ~curClosed

\* the entries of t's field map that declare column name c
Declaring(t, c) == {k \in 1..Len(FieldMaps[t]) : FieldMaps[t][k].name = c}

\* the last of them
LastDeclaring(t, c) ==
    CHOOSE k \in Declaring(t, c) : \A m \in Declaring(t, c) : m <= k

\* the value, in rowv, of the field that declared entry k of t's field map
ValueOfEntry(t, rowv, k) ==
    FieldByIndex(rowv, PathTo(t, FieldMaps[t][k].field.Name))

\* C24: when several fields of Row declare the same column, a row yielded by
\* Scan holds the column's value in the last of them in field-map order and
\* the zero value in the earlier ones, and the argument ExecArgsFields
\* passes for that column is the value of the last of them
C24_LastDeclaringFieldWins ==
    /\ (seqKind = "scan" /\ pass = 1 /\ ~cursor.columnsErr /\ Len(out) >= 1)
           => \A j \in 1..Len(cursor.columns) :
                  Cardinality(Declaring(T, cursor.columns[j])) >= 2
                      => \A i \in 1..Len(out) :
                             out[i].err = Nil
                                 => \A k \in Declaring(T, cursor.columns[j]) :
                                        ValueOfEntry(T, out[i].val, k)
                                            = (IF k = LastDeclaring(T,
                                                          cursor.columns[j])
                                               THEN Cell(i, j) ELSE Scalar(0))
    /\ (api = "ExecContext" /\ pass >= 1 /\ pc # "exec_options"
          /\ options.args = "fields" /\ Len(execLog) >= 1)
           => \A j \in 1..Len(opts[1].columnNames) :
                  Cardinality(Declaring(T, opts[1].columnNames[j])) >= 2
                      => \A k \in 1..Len(execLog) :
                             execLog[k].args[j]
                                 = ValueOfEntry(T, input[k].row,
                                       LastDeclaring(T,
                                           opts[1].columnNames[j]))

\* C24 witness: a cursor over dup, whose fields First and Second both
\* declare x, reported the column x; the row yielded holds the value in
\* Second and zero in First
C24_Witness ==
    /\ seqKind = "scan" /\ T = "dup" /\ pass = 1
    /\ cursor.columns = << "x" >> /\ cursor.nrows >= 1
    /\ Len(out) >= 1 /\ out[1].err = Nil
    /\ out[1].val.fields[1] = Scalar(0)
    /\ out[1].val.fields[2] = Cell(1, 1)

\* the cursor reports its columns, one of which no field of T declares, has
\* no row, and its final status is no error
UnmappedEmptyCase ==
    /\ seqKind = "scan" /\ pass = 1
    /\ ~cursor.columnsErr /\ cursor.nrows = 0 /\ ~cursor.rowsErr
    /\ \E j \in 1..Len(cursor.columns) :
           Declaring(T, cursor.columns[j]) = {}

\* C25: in that case Scan yields no pair, neither a row nor an error, and
\* when the pass is over rows.Close() was called once and the rows are closed
C25_UnmappedColumnNoRows ==
    UnmappedEmptyCase
        => /\ out = << >>
           /\ pc \notin YieldSites
           /\ PassOver => (calls.Close = 1 /\ curClosed)

\* C25 witness: columns age, unmapped against person and no row: rows.Next()
\* was asked once, nothing was yielded, the closure returned, the rows are
\* closed
C25_Witness ==
    /\ UnmappedEmptyCase
    /\ T = "person" /\ cursor.columns = << "age", Unmapped >>
    /\ pc = "returned" /\ out = << >>
    /\ calls.Next = 1 /\ calls.Scan = 0 /\ calls.Close = 1 /\ curClosed

\* the application called ExecContext with the one option
\* ExecArgsFields(c1, ..., cn), the ci distinct
FieldsOptionCase ==
    /\ api = "ExecContext" /\ pc # "start"
    /\ Len(opts) = 1 /\ opts[1].opt = "ExecArgsFields"

\* C26: when some ci has no entry in the field map of Row, ExecArgsFields
\* panicked while the option was built: no sequence was returned, nothing was
\* pulled from the input and nothing executed; when every ci has an entry,
\* the option was built without a panic, each index set
C26_PanicsAtConstruction ==
    FieldsOptionCase
        => IF \E j \in 1..Len(opts[1].columnNames) :
                  Declaring(T, opts[1].columnNames[j]) = {}
           THEN /\ pc = "panicked" /\ pass = 0 /\ seqKind = "none"
                /\ inPos = 0 /\ execLog = << >> /\ out = << >>
           ELSE /\ seqKind = "exec"
                /\ ~(pc = "panicked" /\ pass = 0)
                /\ Len(opts[1].structFieldIndexes) = Len(opts[1].columnNames)
                /\ \A j \in 1..Len(opts[1].structFieldIndexes) :
                       opts[1].structFieldIndexes[j].set

\* C26 witness: ExecArgsFields("name", "unmapped") on person panicked, with
\* an input sequence of three rows untouched
C26_Witness ==
    /\ FieldsOptionCase /\ T = "person"
    /\ opts[1].columnNames = << "name", Unmapped >>
    /\ Len(input) = 3
    /\ pc = "panicked" /\ pass = 0 /\ inPos = 0 /\ execLog = << >>

=============================================================================
